---- MODULE Spec2Model ----
(***************************************************************************)
(* A model of src/scraper.py, the Stardew Valley villager scraper.         *)
(*                                                                         *)
(* Text is modelled as a sequence of one-character strings, so that the    *)
(* conversions the code applies (strip, lower, startswith, the two         *)
(* birthday regular expressions, int() and str()) are computed character   *)
(* by character.  An Optional value is <<>> (None) or <<x>> (a value).     *)
(*                                                                         *)
(* Four specifications share the variables:                                *)
(*   SpecRun      main / scrape_all_villagers / make_request               *)
(*   SpecBirthday parse_birthday on bounded birthday rows                  *)
(*   SpecGifts    parse_gift_preferences, one loop iteration per step      *)
(*   SpecSched    parse_season_schedules, one child element per step       *)
(***************************************************************************)
EXTENDS Integers, Sequences, FiniteSets, TLC

VARIABLES
    mode,            \* which function is being run: "run", "birthday", "gifts", "sched"
    pc,              \* position of the control flow in that function
    \* ---- main / scrape_all_villagers / make_request
    i,               \* enumerate index of the loop at line 339 (0 before it)
    soup,            \* the value make_request returned for the current villager
    villagers,       \* the dict of line 338, as its (key, value) items in insertion order
    output,          \* Optional: the dict scrape_all_villagers returns
    saved,           \* Optional: the data save_to_json wrote to villagers.json
    report,          \* what main printed last: "", "success" or "no_data"
    log,             \* the time.sleep / requests.get calls made so far, in order
    \* ---- parse_birthday
    bd_in,           \* the input the birthday row was built from: form, season, day
    bd_doc,          \* the document handed to parse_birthday
    bd_out,          \* Optional(Optional birthday): the value parse_birthday returned
    \* ---- parse_gift_preferences
    gifts,           \* the dict of line 124
    current_category,\* Optional category of the heading being walked
    g_infobox,       \* titles of the links met in the infobox "Loved" row
    g_love,          \* titles of the links met under a "Love" heading
    g_steps,         \* number of loop iterations made
    \* ---- parse_season_schedules
    schedules,       \* the list of line 237
    current_label,   \* line 245
    children,        \* the children of content_cell iterated so far
    s_nodes          \* number of children and rows consumed

vars == <<mode, pc, i, soup, villagers, output, saved, report, log,
          bd_in, bd_doc, bd_out,
          gifts, current_category, g_infobox, g_love, g_steps,
          schedules, current_label, children, s_nodes>>

runVars == <<i, soup, villagers, output, saved, report, log>>
bdVars == <<bd_in, bd_doc, bd_out>>
giftVars == <<gifts, current_category, g_infobox, g_love, g_steps>>
schedVars == <<schedules, current_label, children, s_nodes>>

----------------------------------------------------------------------------
(* Optional values *)

None == <<>>
Some(x) == <<x>>
IsSome(o) == Len(o) = 1
Get(o) == o[1]

----------------------------------------------------------------------------
(* Text: sequences of one-character strings *)

Whitespace == {" ", "\n"}
Digits == <<"0", "1", "2", "3", "4", "5", "6", "7", "8", "9">>
UpperCase == <<"A", "B", "C", "D", "E", "F", "G", "H", "I", "J", "K", "L", "M",
               "N", "O", "P", "Q", "R", "S", "T", "U", "V", "W", "X", "Y", "Z">>
LowerCase == <<"a", "b", "c", "d", "e", "f", "g", "h", "i", "j", "k", "l", "m",
               "n", "o", "p", "q", "r", "s", "t", "u", "v", "w", "x", "y", "z">>

DigitValue(c) == (CHOOSE k \in 1..Len(Digits) : Digits[k] = c) - 1

\* str.lower()
LowerChar(c) ==
    IF \E k \in 1..Len(UpperCase) : UpperCase[k] = c
    THEN LowerCase[CHOOSE k \in 1..Len(UpperCase) : UpperCase[k] = c]
    ELSE c
Lower(s) == [k \in 1..Len(s) |-> LowerChar(s[k])]

\* str.startswith(p)
StartsWith(s, p) == Len(s) >= Len(p) /\ SubSeq(s, 1, Len(p)) = p

\* p in s
Contains(s, p) ==
    \E k \in 0..(Len(s) - Len(p)) : SubSeq(s, k + 1, k + Len(p)) = p

\* str.strip()
Strip(s) ==
    LET keep == {k \in 1..Len(s) : s[k] \notin Whitespace}
    IN  IF keep = {} THEN <<>>
        ELSE SubSeq(s, CHOOSE a \in keep : \A b \in keep : a <= b,
                       CHOOSE a \in keep : \A b \in keep : a >= b)

RECURSIVE Join(_, _)
\* sep.join(strings)
Join(strings, sep) ==
    IF Len(strings) = 0 THEN <<>>
    ELSE IF Len(strings) = 1 THEN strings[1]
    ELSE strings[1] \o sep \o Join(Tail(strings), sep)

\* Tag.get_text(sep, strip=True): every string stripped, the empty ones dropped
GetTextStrip(strings, sep) ==
    LET stripped == [k \in 1..Len(strings) |-> Strip(strings[k])]
    IN  Join(SelectSeq(stripped, LAMBDA s : s # <<>>), sep)

\* Tag.get_text(): the strings as they are
GetText(strings) == Join(strings, <<>>)

RECURSIVE ParseInt(_)
\* int(digits)
ParseInt(ds) ==
    IF Len(ds) = 0 THEN 0
    ELSE 10 * ParseInt(SubSeq(ds, 1, Len(ds) - 1)) + DigitValue(ds[Len(ds)])

RECURSIVE Str(_)
\* str(n) for n >= 0
Str(n) == IF n < 10 THEN <<Digits[n + 1]>> ELSE Str(n \div 10) \o <<Digits[(n % 10) + 1]>>

----------------------------------------------------------------------------
(* Program constants *)

BACHELORS == <<"Alex", "Elliott", "Harvey", "Sam", "Sebastian", "Shane">>
BACHELORETTES == <<"Abigail", "Emily", "Haley", "Leah", "Maru", "Penny">>
OTHERS == <<"Caroline", "Clint", "Demetrius", "Dwarf", "Evelyn", "George",
            "Gus", "Jas", "Jodi", "Kent", "Krobus", "Leo", "Lewis", "Linus",
            "Marnie", "Pam", "Pierre", "Robin", "Sandy", "Vincent", "Willy", "Wizard">>

SeqRange(s) == {s[k] : k \in 1..Len(s)}

MARRIAGE_CANDIDATES == SeqRange(BACHELORS \o BACHELORETTES)

\* the season words of the two patterns, in the order of the alternation
SeasonWords == << <<"S", "p", "r", "i", "n", "g">>,
                  <<"S", "u", "m", "m", "e", "r">>,
                  <<"F", "a", "l", "l">>,
                  <<"W", "i", "n", "t", "e", "r">> >>

T_Birthday == <<"B", "i", "r", "t", "h", "d", "a", "y">>
T_Loved == <<"L", "o", "v", "e", "d">>
T_File == <<"F", "i", "l", "e", ":">>
T_Schedule == <<"S", "c", "h", "e", "d", "u", "l", "e">>
T_Regular == <<"R", "e", "g", "u", "l", "a", "r">>

----------------------------------------------------------------------------
(* parse_birthday *)

\* the longest prefix of s made of characters satisfying P
SpanLen(s, set) ==
    CHOOSE n \in 0..Len(s) :
        /\ \A k \in 1..n : s[k] \in set
        /\ n = Len(s) \/ s[n + 1] \notin set

DigitSet == {Digits[k] : k \in 1..Len(Digits)}

Drop(s, n) == SubSeq(s, n + 1, Len(s))

\* mutant: the day group is \d, one digit, instead of \d+
MatchSeasonDay_OneDigit(text) ==
    LET hits == {w \in 1..Len(SeasonWords) :
                    /\ StartsWith(text, SeasonWords[w])
                    /\ LET rest == Drop(text, Len(SeasonWords[w]))
                       IN  SpanLen(Drop(rest, SpanLen(rest, Whitespace)), DigitSet) >= 1}
    IN  IF hits = {} THEN None
        ELSE LET w == CHOOSE a \in hits : \A b \in hits : a <= b
                 rest == Drop(text, Len(SeasonWords[w]))
                 tail == Drop(rest, SpanLen(rest, Whitespace))
             IN  Some(<<SeasonWords[w], SubSeq(tail, 1, 1)>>)

\* re.match(r"(Spring|Summer|Fall|Winter)\s*(\d+)", text): Optional <<group 1, group 2>>
MatchSeasonDay(text) ==
    LET ok(w) == StartsWith(text, SeasonWords[w])
                 /\ LET rest == Drop(text, Len(SeasonWords[w]))
                        tail == Drop(rest, SpanLen(rest, Whitespace))
                    IN  SpanLen(tail, DigitSet) >= 1
        hits == {w \in 1..Len(SeasonWords) : ok(w)}
    IN  IF hits = {} THEN None
        ELSE LET w == CHOOSE a \in hits : \A b \in hits : a <= b
                 rest == Drop(text, Len(SeasonWords[w]))
                 tail == Drop(rest, SpanLen(rest, Whitespace))
             IN  Some(<<SeasonWords[w], SubSeq(tail, 1, SpanLen(tail, DigitSet))>>)

\* re.match(r"(\d+)\s*(Spring|Summer|Fall|Winter)", text): Optional <<group 1, group 2>>
MatchDaySeason(text) ==
    LET nd == SpanLen(text, DigitSet)
        rest == Drop(text, nd)
        tail == Drop(rest, SpanLen(rest, Whitespace))
        hits == {w \in 1..Len(SeasonWords) : StartsWith(tail, SeasonWords[w])}
    IN  IF nd = 0 \/ hits = {} THEN None
        ELSE Some(<<SubSeq(text, 1, nd),
                    SeasonWords[CHOOSE a \in hits : \A b \in hits : a <= b]>>)

\* lines 83-99: the two patterns on the detail cell's text
BirthdayOfText(birthday_text) ==
    LET m1 == MatchSeasonDay(birthday_text)
        m2 == MatchDaySeason(birthday_text)
    IN  IF IsSome(m1)
        THEN Some([season |-> Get(m1)[1], day |-> ParseInt(Get(m1)[2])])
        ELSE IF IsSome(m2)
        THEN Some([season |-> Get(m2)[2], day |-> ParseInt(Get(m2)[1])])
        ELSE None

RECURSIVE BirthdayOfRows(_)
\* lines 78-100: the first row that yields a birthday
BirthdayOfRows(rows) ==
    IF Len(rows) = 0 THEN None
    ELSE LET row == Head(rows)
             hit == IF IsSome(row.section)
                       /\ Contains(GetText(Get(row.section)), T_Birthday)
                       /\ IsSome(row.detail)
                    THEN BirthdayOfText(GetTextStrip(Get(row.detail).strings, <<>>))
                    ELSE None
         IN  IF IsSome(hit) THEN hit ELSE BirthdayOfRows(Tail(rows))

parse_birthday(doc) ==
    IF ~IsSome(doc.infobox) THEN None ELSE BirthdayOfRows(Get(doc.infobox).rows)

----------------------------------------------------------------------------
(* parse_image_url *)

BASE_URL == <<"h", "t", "t", "p", "s", ":", "/", "/", "s", "t", "a", "r", "d", "e", "w", "v", "a", "l", "l", "e", "y", "w", "i", "k", "i", ".", "c", "o", "m">>
T_Https == <<"h", "t", "t", "p", "s", ":">>

\* lines 105-119; infobox.img is the src attribute of the first img, when both exist
parse_image_url(doc) ==
    IF ~IsSome(doc.infobox) THEN None
    ELSE LET img == Get(doc.infobox).img
         IN  IF IsSome(img) /\ Get(img) # <<>>
             THEN LET src == Get(img)
                  IN  IF StartsWith(src, <<"/", "/">>) THEN Some(T_Https \o src)
                      ELSE IF StartsWith(src, <<"/">>) THEN Some(BASE_URL \o src)
                      ELSE Some(src)
             ELSE None

----------------------------------------------------------------------------
(* parse_gift_preferences *)

Categories == {"loved", "liked", "neutral", "disliked", "hated"}

\* line 124
EmptyGifts == [c \in Categories |-> <<>>]

\* lines 154-160, in the order of the dict
category_map == << <<<<"l", "o", "v", "e">>, "loved">>,
                   <<<<"l", "i", "k", "e">>, "liked">>,
                   <<<<"n", "e", "u", "t", "r", "a", "l">>, "neutral">>,
                   <<<<"d", "i", "s", "l", "i", "k", "e">>, "disliked">>,
                   <<<<"h", "a", "t", "e">>, "hated">> >>

\* line 188
FilterWords == {<<"u", "n", "i", "v", "e", "r", "s", "a", "l">>,
                <<"c", "a", "t", "e", "g", "o", "r", "y">>,
                <<"g", "i", "f", "t">>,
                <<"v", "i", "l", "l", "a", "g", "e", "r">>}

\* line 143 and line 184: the title is kept when it is set and is no file reference
TitleKept(title) ==
    IsSome(title) /\ Get(title) # <<>> /\ ~StartsWith(Get(title), T_File)

\* lines 142-146: one link of the infobox "Loved" row
AddLoved(g, title) ==
    IF TitleKept(title)
    THEN LET item == Strip(Get(title))
         IN  IF item # <<>> /\ item \notin SeqRange(g["loved"])
             THEN [g EXCEPT !["loved"] = Append(@, item)]
             ELSE g
    ELSE g

\* mutant: the title is appended without looking for it in the category
AddGift_NoLookup(g, category, title) ==
    IF TitleKept(title)
    THEN LET item == Strip(Get(title))
         IN  IF item # <<>> /\ ~\E x \in FilterWords : Contains(Lower(item), x)
             THEN [g EXCEPT ![category] = Append(@, item)]
             ELSE g
    ELSE g

\* lines 183-189: one link of a sibling of a category heading
AddGift(g, category, title) ==
    IF TitleKept(title)
    THEN LET item == Strip(Get(title))
         IN  IF item # <<>> /\ item \notin SeqRange(g[category])
                /\ ~\E x \in FilterWords : Contains(Lower(item), x)
             THEN [g EXCEPT ![category] = Append(@, item)]
             ELSE g
    ELSE g

\* lines 163-173: the category of a heading; headline is the mw-headline span's strings
CategoryOf(headline) ==
    IF ~IsSome(headline) THEN None
    ELSE LET heading_text == Lower(GetTextStrip(Get(headline), <<>>))
             hits == {k \in 1..Len(category_map) : category_map[k][1] = heading_text}
         IN  IF hits = {} THEN None
             ELSE Some(category_map[CHOOSE a \in hits : \A b \in hits : a <= b][2])

RECURSIVE LovedLinks(_, _)
\* the loop of line 141 over the links of the detail cell
LovedLinks(g, links) ==
    IF Len(links) = 0 THEN g ELSE LovedLinks(AddLoved(g, Head(links)), Tail(links))

RECURSIVE GiftLinks(_, _, _)
\* the loop of line 182 over the links of one sibling
GiftLinks(g, category, links) ==
    IF Len(links) = 0 THEN g
    ELSE GiftLinks(AddGift(g, category, Head(links)), category, Tail(links))

RECURSIVE LovedRows(_, _)
\* lines 135-146
LovedRows(g, rows) ==
    IF Len(rows) = 0 THEN g
    ELSE LET row == Head(rows)
             g1 == IF IsSome(row.section)
                      /\ Contains(GetText(Get(row.section)), T_Loved)
                      /\ IsSome(row.detail)
                   THEN LovedLinks(g, Get(row.detail).links)
                   ELSE g
         IN  LovedRows(g1, Tail(rows))

RECURSIVE WalkSiblings(_, _, _)
\* lines 179-190: the siblings after a heading, up to the next h2 or h3
WalkSiblings(g, category, siblings) ==
    IF Len(siblings) = 0 \/ Head(siblings).name \in {"h2", "h3"} THEN g
    ELSE WalkSiblings(GiftLinks(g, category, Head(siblings).links), category,
                      Tail(siblings))

RECURSIVE GiftHeadings(_, _, _)
\* lines 162-190: every h3 among nodes[k..], in document order
GiftHeadings(g, nodes, k) ==
    IF k > Len(nodes) THEN g
    ELSE LET category == IF nodes[k].name = "h3" THEN CategoryOf(nodes[k].headline)
                         ELSE None
             g1 == IF IsSome(category)
                   THEN WalkSiblings(g, Get(category), Drop(nodes, k))
                   ELSE g
         IN  GiftHeadings(g1, nodes, k + 1)

parse_gift_preferences(doc) ==
    LET g1 == IF IsSome(doc.infobox)
              THEN LovedRows(EmptyGifts, Get(doc.infobox).rows)
              ELSE EmptyGifts
    IN  IF ~IsSome(doc.content) THEN g1
        ELSE GiftHeadings(g1, Get(doc.content), 1)

----------------------------------------------------------------------------
(* parse_season_schedules and parse_schedule *)

\* lines 268-275: the entry of one row without a header cell, if it has two cells
RowEntry(row) ==
    IF Len(row.tds) >= 2
    THEN Some([time |-> GetTextStrip(row.tds[1], <<>>),
               location |-> GetTextStrip(row.tds[2], <<" ">>)])
    ELSE None

RECURSIVE ScheduleEntries(_)
\* lines 262-275: the entries of the rows of one table, in row order
ScheduleEntries(rows) ==
    IF Len(rows) = 0 THEN <<>>
    ELSE LET row == Head(rows)
             entry == IF row.th THEN None ELSE RowEntry(row)
         IN  entry \o ScheduleEntries(Tail(rows))

\* mutant: the table is appended whatever its entries
AppendVariant_KeepEmpty(scheds, label, rows) ==
    Append(scheds, [name |-> label, entries |-> ScheduleEntries(rows)])

\* lines 257-278: one wikitable child appended, unless it has no entries
AppendVariant(scheds, label, rows) ==
    LET schedule_data == [name |-> label, entries |-> ScheduleEntries(rows)]
    IN  IF schedule_data.entries # <<>> THEN Append(scheds, schedule_data) ELSE scheds

\* lines 251-253: the label after a paragraph
LabelAfter(label, element) ==
    IF IsSome(element.bold) THEN GetTextStrip(Get(element.bold), <<>>) ELSE label

\* mutant: the label falls back to "Regular" once a table has used it
ChildStep_LabelReset(st, element) ==
    IF element.name = "p"
    THEN [st EXCEPT !.current_label = LabelAfter(st.current_label, element)]
    ELSE IF element.name = "table" /\ "wikitable" \in element.classes
    THEN [schedules |-> AppendVariant(st.schedules, st.current_label, element.rows),
          current_label |-> T_Regular]
    ELSE st

\* lines 249-278: one iteration of the loop over content_cell.children
ChildStep(st, element) ==
    IF element.name = "p"
    THEN [st EXCEPT !.current_label = LabelAfter(st.current_label, element)]
    ELSE IF element.name = "table" /\ "wikitable" \in element.classes
    THEN [st EXCEPT !.schedules =
              AppendVariant(st.schedules, st.current_label, element.rows)]
    ELSE st

RECURSIVE ChildLoop(_, _)
ChildLoop(st, elements) ==
    IF Len(elements) = 0 THEN st
    ELSE ChildLoop(ChildStep(st, Head(elements)), Tail(elements))

\* lines 237-245
SeasonStart == [schedules |-> <<>>, current_label |-> T_Regular]

\* season_table.cell is the children of the table's first td, when it has one
parse_season_schedules(season_table) ==
    IF ~IsSome(season_table.cell) THEN <<>>
    ELSE ChildLoop(SeasonStart, Get(season_table.cell)).schedules

\* d[key] = value on a dict kept as its items in insertion order
DictSet(items, key, value) ==
    IF \E k \in 1..Len(items) : items[k][1] = key
    THEN [k \in 1..Len(items) |->
              IF items[k][1] = key THEN <<key, value>> ELSE items[k]]
    ELSE Append(items, <<key, value>>)

DictKeys(items) == [k \in 1..Len(items) |-> items[k][1]]

\* lines 222-225: the season name of a collapsible table's first th
SeasonName(header) ==
    IF IsSome(header.link) THEN GetTextStrip(Get(header.link), <<>>)
    ELSE GetTextStrip(header.strings, <<>>)

RECURSIVE SeasonTables(_, _)
\* lines 218-230: the siblings after the Schedule heading, up to the next h2
SeasonTables(schedule, siblings) ==
    IF Len(siblings) = 0 \/ Head(siblings).name = "h2" THEN schedule
    ELSE LET sibling == Head(siblings)
             s1 == IF sibling.name = "table" /\ "mw-collapsible" \in sibling.classes
                      /\ IsSome(sibling.header)
                   THEN DictSet(schedule, SeasonName(Get(sibling.header)),
                                parse_season_schedules(sibling))
                   ELSE schedule
         IN  SeasonTables(s1, Tail(siblings))

\* lines 205-209: is this node an h2 whose headline contains "Schedule"
IsScheduleHeading(node) ==
    node.name = "h2" /\ IsSome(node.headline)
    /\ Contains(GetText(Get(node.headline)), T_Schedule)

parse_schedule(doc) ==
    IF ~IsSome(doc.content) THEN <<>>
    ELSE LET nodes == Get(doc.content)
             hits == {k \in 1..Len(nodes) : IsScheduleHeading(nodes[k])}
         IN  IF hits = {} THEN <<>>
             ELSE SeasonTables(<<>>, Drop(nodes, CHOOSE a \in hits : \A b \in hits : a <= b))

----------------------------------------------------------------------------
(* Documents: what BeautifulSoup hands to the extractors *)

\* a row of the infobox: the strings of its infoboxsection cell, and its
\* infoboxdetail cell with its strings and the title attributes of its links
InfoRow(section, strings, links) ==
    [section |-> Some(section), detail |-> Some([strings |-> strings, links |-> links])]

\* a child of div#mw-content-text
Node(name, headline, links, classes, header, cell) ==
    [name |-> name, headline |-> headline, links |-> links, classes |-> classes,
     header |-> header, cell |-> cell]

\* a child of a season table's content cell
Child(name, bold, classes, rows) ==
    [name |-> name, bold |-> bold, classes |-> classes, rows |-> rows]

T_Pizza == <<"P", "i", "z", "z", "a">>
T_Rain == <<"R", "a", "i", "n">>
T_9am == <<"9", "a", "m">>
T_Noon == <<"1", "2", "p", "m">>
T_Home == <<"H", "o", "m", "e">>
T_Beach == <<"B", "e", "a", "c", "h">>
T_Summer13 == <<"S", "u", "m", "m", "e", "r", " ", "1", "3">>

\* the synthetic document of the specification's end-to-end property
DocSynthetic ==
    [infobox |-> Some([img |-> Some(<<"/", "i", "m", "a", "g", "e", "s", "/", "x", ".", "p", "n", "g">>),
                       rows |-> << InfoRow(<<T_Birthday>>, <<T_Summer13>>, <<>>),
                                   InfoRow(<<<<"L", "o", "v", "e", "d", " ", "G", "i", "f", "t", "s">>>>, <<>>,
                                           <<Some(<<"F", "i", "l", "e", ":", "P", "i", "z", "z", "a", ".", "p", "n", "g">>), Some(T_Pizza)>>) >>]),
     content |-> Some(<<
        Node("h3", Some(<<<<"L", "o", "v", "e">>>>), <<>>, {}, None, None),
        Node("div", None, <<Some(T_Pizza), Some(<<"U", "n", "i", "v", "e", "r", "s", "a", "l", " ", "L", "o", "v", "e", "s">>)>>, {}, None, None),
        Node("h2", Some(<<T_Schedule>>), <<>>, {}, None, None),
        Node("table", None, <<>>, {"wikitable", "mw-collapsible"},
             Some([link |-> Some(<<<<"S", "p", "r", "i", "n", "g">>>>), strings |-> <<<<"S", "p", "r", "i", "n", "g">>>>]),
             Some(<< Child("p", Some(<<T_Rain>>), {}, <<>>),
                     Child("table", None, {"wikitable"},
                           << [th |-> TRUE, tds |-> <<>>],
                              [th |-> FALSE, tds |-> << <<T_9am>>, <<T_Home>> >>],
                              [th |-> FALSE, tds |-> << <<T_Noon>>, <<T_Beach>> >>] >>) >>))
     >>)]

\* a page whose birthday row reads day first, in two strings ("13", " Summer")
DocDayFirst ==
    [infobox |-> Some([img |-> Some(<<"/", "/", "c", "d", "n", "/", "y", ".", "p", "n", "g">>),
                       rows |-> << InfoRow(<<T_Birthday>>, <<<<"1", "3">>, <<" ", "S", "u", "m", "m", "e", "r">>>>, <<>>) >>]),
     content |-> None]

\* a page with another birthday
DocFall ==
    [infobox |-> Some([img |-> None,
                       rows |-> << InfoRow(<<T_Birthday>>, <<<<"F", "a", "l", "l", "2">>>>, <<>>) >>]),
     content |-> Some(<<>>)]

\* a page without an infobox
DocBare == [infobox |-> None, content |-> None]

SampleDocs == {DocSynthetic, DocDayFirst, DocFall, DocBare}

----------------------------------------------------------------------------
(* The orchestrator: get_villager_list, scrape_villager_details,           *)
(* build_birthday_index, scrape_all_villagers, save_to_json, main          *)

\* how many names of each group the model enumerates
\* line 18, in milliseconds, and the timeout of line 33, in seconds
REQUEST_DELAY == 500
REQUEST_TIMEOUT == 30

\* an entry of log: a call of time.sleep or requests.get, or the print of line 37
Event(op, name, arg) == [op |-> op, name |-> name, arg |-> arg]

TakeBachelors == 1
TakeBachelorettes == 1
TakeOthers == 1

Take(s, n) == SubSeq(s, 1, IF n < Len(s) THEN n ELSE Len(s))

\* lines 48-64
get_villager_list ==
    LET all_villagers == Take(BACHELORS, TakeBachelors)
                         \o Take(BACHELORETTES, TakeBachelorettes)
                         \o Take(OTHERS, TakeOthers)
    IN  [k \in 1..Len(all_villagers) |->
            [name |-> all_villagers[k],
             url |-> [base |-> BASE_URL, path |-> all_villagers[k]]]]

\* the ways requests.get / raise_for_status fail with a RequestException
Failures == {"timeout", "http_status", "connection"}

\* lines 290-300
Villager(name, url, doc) ==
    [name |-> name,
     url |-> url,
     image_url |-> parse_image_url(doc),
     birthday |-> parse_birthday(doc),
     marriageable |-> name \in MARRIAGE_CANDIDATES,
     gifts |-> parse_gift_preferences(doc),
     schedule |-> parse_schedule(doc)]

\* lines 286-300: None when make_request returned None
scrape_villager_details(name, url, page) ==
    IF ~IsSome(page) THEN None ELSE Some(Villager(name, url, Get(page)))

\* mutant: a failed fetch abandons what was collected
StoreDetails_ResetOnMiss(items, name, details) ==
    IF IsSome(details) THEN DictSet(items, name, Get(details)) ELSE <<>>

\* lines 342-343
StoreDetails(items, name, details) ==
    IF IsSome(details) THEN DictSet(items, name, Get(details)) ELSE items

\* mutant: the first entity with a birthday keeps the date
IndexSet_FirstWins(f, day, name) ==
    IF day \in DOMAIN f THEN f
    ELSE [k \in (DOMAIN f) \cup {day} |-> IF k = day THEN name ELSE f[k]]

\* birthdays[season][day] = name, a dict as a function on its keys
IndexSet(f, day, name) ==
    [k \in (DOMAIN f) \cup {day} |-> IF k = day THEN name ELSE f[k]]

SeasonSet == SeqRange(SeasonWords)

\* lines 313-317: one item of villagers.items()
IndexStep(birthdays, name, data) ==
    IF IsSome(data.birthday)
    THEN LET season == Get(data.birthday).season
             day == Str(Get(data.birthday).day)
         IN  IF season \in DOMAIN birthdays
             THEN [birthdays EXCEPT ![season] = IndexSet(@, day, name)]
             ELSE birthdays
    ELSE birthdays

RECURSIVE IndexLoop(_, _)
IndexLoop(birthdays, items) ==
    IF Len(items) = 0 THEN birthdays
    ELSE IndexLoop(IndexStep(birthdays, Head(items)[1], Head(items)[2]), Tail(items))

\* lines 303-319
build_birthday_index(items) ==
    IndexLoop([season \in SeasonSet |-> [k \in {} |-> ""]], items)

\* mutant: the candidates are counted over the enumeration, fetched or not
CountMarriageable_Enumerated(items) ==
    Cardinality({k \in 1..Len(get_villager_list) :
                    get_villager_list[k].name \in MARRIAGE_CANDIDATES})

\* line 351
CountMarriageable(items) ==
    Cardinality({k \in 1..Len(items) : items[k][2].marriageable})

\* lines 346-355; scraped_at is the clock's reading, which nothing reads
Document(items) ==
    [metadata |-> [scraped_at |-> "datetime.now",
                   source |-> [base |-> BASE_URL, path |-> "Villagers"],
                   total_villagers |-> Len(items),
                   marriage_candidates |-> CountMarriageable(items)],
     villagers |-> items,
     birthdays_by_date |-> build_birthday_index(items)]

\* mutant: only the document itself is tested, which metadata makes truthy
HasData_DocumentOnly(data) == IsSome(data)

\* line 371: data and data.get("villagers")
HasData(data) == IsSome(data) /\ Len(Get(data).villagers) > 0

CurrentVillager == get_villager_list[i]

\* lines 329-338
Begin ==
    /\ mode = "run" /\ pc = "start"
    /\ pc' = IF Len(get_villager_list) = 0 THEN "main" ELSE "loop"
    /\ output' = IF Len(get_villager_list) = 0 THEN None ELSE output
    /\ villagers' = <<>>
    /\ i' = 0
    /\ UNCHANGED <<mode, soup, saved, report, log, bdVars, giftVars, schedVars>>

\* lines 339-341, 286, 32: the next villager; make_request sleeps first
Sleep ==
    /\ mode = "run" /\ pc = "loop" /\ i < Len(get_villager_list)
    /\ i' = i + 1
    /\ log' = Append(log, Event("sleep", get_villager_list[i + 1].name, REQUEST_DELAY))
    /\ pc' = "request"
    /\ UNCHANGED <<mode, soup, villagers, output, saved, report, bdVars, giftVars, schedVars>>

\* lines 33-35: the GET succeeds and the page is parsed
RequestSucceeds ==
    /\ mode = "run" /\ pc = "request"
    /\ \E doc \in SampleDocs : soup' = Some(doc)
    /\ log' = Append(log, Event("get", CurrentVillager.name, REQUEST_TIMEOUT))
    /\ pc' = "details"
    /\ UNCHANGED <<mode, i, villagers, output, saved, report, bdVars, giftVars, schedVars>>

\* mutant: a failed GET is tried a second time
RequestFails_Retry ==
    /\ mode = "run" /\ pc = "request"
    /\ \E failure \in Failures : soup' = None
    /\ log' = log \o <<Event("get", CurrentVillager.name, REQUEST_TIMEOUT),
                       Event("error", CurrentVillager.name, 0),
                       Event("sleep", CurrentVillager.name, REQUEST_DELAY),
                       Event("get", CurrentVillager.name, REQUEST_TIMEOUT),
                       Event("error", CurrentVillager.name, 0)>>
    /\ pc' = "details"
    /\ UNCHANGED <<mode, i, villagers, output, saved, report, bdVars, giftVars, schedVars>>

\* lines 33-38: the GET raises a RequestException, which is caught and printed
RequestFails ==
    /\ mode = "run" /\ pc = "request"
    /\ \E failure \in Failures : soup' = None
    /\ log' = log \o <<Event("get", CurrentVillager.name, REQUEST_TIMEOUT),
                       Event("error", CurrentVillager.name, 0)>>
    /\ pc' = "details"
    /\ UNCHANGED <<mode, i, villagers, output, saved, report, bdVars, giftVars, schedVars>>

\* lines 287-300, 342-343
Details ==
    /\ mode = "run" /\ pc = "details"
    /\ villagers' = StoreDetails(villagers, CurrentVillager.name,
                        scrape_villager_details(CurrentVillager.name,
                                                CurrentVillager.url, soup))
    /\ soup' = None
    /\ pc' = "loop"
    /\ UNCHANGED <<mode, i, output, saved, report, log, bdVars, giftVars, schedVars>>

\* lines 346-357
Finish ==
    /\ mode = "run" /\ pc = "loop" /\ i = Len(get_villager_list)
    /\ output' = Some(Document(villagers))
    /\ pc' = "main"
    /\ UNCHANGED <<mode, i, soup, villagers, saved, report, log, bdVars, giftVars, schedVars>>

\* lines 371-373
MainSave ==
    /\ mode = "run" /\ pc = "main" /\ HasData(output)
    /\ saved' = output
    /\ report' = "success"
    /\ pc' = "done"
    /\ UNCHANGED <<mode, i, soup, villagers, output, log, bdVars, giftVars, schedVars>>

\* lines 384-385
MainNoData ==
    /\ mode = "run" /\ pc = "main" /\ ~HasData(output)
    /\ report' = "no_data"
    /\ pc' = "done"
    /\ UNCHANGED <<mode, i, soup, villagers, output, saved, log, bdVars, giftVars, schedVars>>

\* the variables of the functions a specification does not run
IdleRun == /\ i = 0 /\ soup = None /\ villagers = <<>> /\ output = None
           /\ saved = None /\ report = "" /\ log = <<>>
IdleBirthday == bd_in = None /\ bd_doc = None /\ bd_out = None
IdleGifts == /\ gifts = EmptyGifts /\ current_category = None /\ g_infobox = {}
             /\ g_love = {} /\ g_steps = 0
IdleSched == /\ schedules = <<>> /\ current_label = T_Regular /\ children = <<>>
             /\ s_nodes = 0

InitRun == mode = "run" /\ pc = "start" /\ IdleRun /\ IdleBirthday /\ IdleGifts /\ IdleSched

NextRun == \/ Begin \/ Sleep \/ RequestSucceeds \/ RequestFails \/ Details
           \/ Finish \/ MainSave \/ MainNoData

SpecRun == InitRun /\ [][NextRun]_vars

----------------------------------------------------------------------------
(* Claims about the orchestrator, checked under SpecRun *)

ListNames == [k \in 1..Len(get_villager_list) |-> get_villager_list[k].name]
Position(name) == CHOOSE k \in 1..Len(ListNames) : ListNames[k] = name

EventsOf(op) == SelectSeq(log, LAMBDA e : e.op = op)
NamesOf(op) == {e.name : e \in SeqRange(EventsOf(op))}

\* the names whose GET was made and printed no error
Succeeded == NamesOf("get") \ NamesOf("error")
Failed == NamesOf("error")

BetweenVillagers == pc \in {"loop", "main", "done"}
RunEnded == pc \in {"main", "done"}

\* C1: a failed fetch makes make_request return None (the run goes on, it does
\* not raise), and drops that one entity and no other: between two villagers
\* the keys of villagers are exactly the names whose fetch succeeded, and when
\* the run ends every name of the enumeration has been requested.
C1_FailureDropsOnlyThatEntity ==
    mode = "run" =>
        /\ (pc = "details" /\ CurrentVillager.name \in Failed) => soup = None
        /\ (pc = "details" /\ CurrentVillager.name \notin Failed) => IsSome(soup)
        /\ BetweenVillagers => SeqRange(DictKeys(villagers)) = Succeeded
        /\ RunEnded => NamesOf("get") = SeqRange(ListNames)
        /\ RunEnded /\ IsSome(output) =>
               SeqRange(DictKeys(Get(output).villagers)) = Succeeded

\* C1 witness: a run has ended in which a fetch failed and a later one succeeded
C1_Witness ==
    /\ mode = "run" /\ pc = "done"
    /\ \E a \in Failed, b \in Succeeded : Position(a) < Position(b)
    /\ \E a \in Succeeded, b \in Failed : Position(a) < Position(b)

\* the items of a collection whose birthday is (season, day)
BornOn(items, season, day) ==
    {k \in 1..Len(items) :
        items[k][2].birthday = Some([season |-> season, day |-> day])}

MaxOf(set) == CHOOSE a \in set : \A b \in set : a >= b

\* the largest day number the index claims are checked for
MaxDay == 28

\* C2: the index returned by build_birthday_index has an entry at
\* (season, str(day)) iff some entity of the collection has that birthday; the
\* entry is the name of the last such entity in the collection's order; every
\* name in the index is a key of the collection.
C2_BirthdayIndex ==
    (mode = "run" /\ IsSome(output)) =>
        LET items == Get(output).villagers
            index == Get(output).birthdays_by_date
        IN  /\ DOMAIN index = SeasonSet
            /\ \A season \in SeasonSet :
                 /\ \A day \in 0..MaxDay :
                      /\ Str(day) \in DOMAIN index[season]
                            <=> BornOn(items, season, day) # {}
                      /\ BornOn(items, season, day) # {} =>
                            index[season][Str(day)] =
                                items[MaxOf(BornOn(items, season, day))][1]
                 /\ \A key \in DOMAIN index[season] :
                      /\ index[season][key] \in SeqRange(DictKeys(items))
                      /\ \E day \in 0..MaxDay : key = Str(day)

\* C2 witness: two entities of the returned collection share a birthday and a
\* third has none
C2_Witness ==
    /\ mode = "run" /\ IsSome(output)
    /\ LET items == Get(output).villagers
       IN  /\ \E season \in SeasonSet, day \in 0..MaxDay :
                 Cardinality(BornOn(items, season, day)) >= 2
           /\ \E k \in 1..Len(items) : items[k][2].birthday = None

\* C7: when no entity was scraped, main does not call save_to_json, nothing is
\* written and the run ends reporting "no data"; what is written holds at
\* least one entity.
C7_NoDataNothingWritten ==
    mode = "run" =>
        /\ (pc = "done" /\ villagers = <<>>) => (saved = None /\ report = "no_data")
        /\ IsSome(saved) => (Len(Get(saved).villagers) >= 1 /\ villagers # <<>>)
        /\ pc # "done" => (saved = None /\ report = "")

\* C7 witness: the run has ended with every fetch failed
C7_Witness ==
    /\ mode = "run" /\ pc = "done"
    /\ Failed = SeqRange(ListNames)
    /\ IsSome(output)

\* C8: in every returned document total_villagers is the number of keys of the
\* villagers mapping and marriage_candidates the number of its entities whose
\* marriageable flag is true, which are its bachelors and bachelorettes.
C8_MetadataCounts ==
    (mode = "run" /\ IsSome(output)) =>
        LET doc == Get(output)
            keys == SeqRange(DictKeys(doc.villagers))
        IN  /\ doc.metadata.total_villagers = Cardinality(keys)
            /\ doc.metadata.marriage_candidates =
                   Cardinality({k \in 1..Len(doc.villagers) :
                                   doc.villagers[k][2].marriageable})
            /\ doc.metadata.marriage_candidates =
                   Cardinality(keys \cap SeqRange(BACHELORS \o BACHELORETTES))

\* C8 witness: a document was returned in which a marriage candidate's fetch
\* failed, another candidate's succeeded and a non-candidate's succeeded
C8_Witness ==
    /\ mode = "run" /\ IsSome(output)
    /\ Failed \cap MARRIAGE_CANDIDATES # {}
    /\ Succeeded \cap MARRIAGE_CANDIDATES # {}
    /\ Succeeded \ MARRIAGE_CANDIDATES # {}

\* the group of a name in the enumeration: bachelors, bachelorettes, the rest
Group(name) ==
    IF name \in SeqRange(BACHELORS) THEN 1
    ELSE IF name \in SeqRange(BACHELORETTES) THEN 2 ELSE 3

\* C10: the entities are requested one at a time in enumeration order
\* (bachelors, bachelorettes, the rest), each exactly once whether the fetch
\* succeeds or fails, every request comes right after the fixed delay, and the
\* villagers mapping lists the successful entities in enumeration order.
C10_SequentialOncePerEntity ==
    mode = "run" =>
        LET gets == EventsOf("get")
            keys == DictKeys(villagers)
        IN  /\ Len(gets) \in {i, i - 1}
            /\ Len(gets) = i \/ pc = "request"
            /\ \A k \in 1..Len(gets) : gets[k].name = ListNames[k]
            /\ \A k \in 1..(Len(gets) - 1) : Group(gets[k].name) <= Group(gets[k + 1].name)
            /\ \A k \in 1..Len(log) :
                  log[k].op = "get" =>
                      /\ k > 1
                      /\ log[k - 1] = Event("sleep", log[k].name, REQUEST_DELAY)
            /\ Len(EventsOf("sleep")) = i
            /\ \A k \in 1..(Len(keys) - 1) : Position(keys[k]) < Position(keys[k + 1])
            /\ RunEnded => Len(gets) = Len(ListNames)

\* C10 witness: the run has ended with a failed fetch, and successes from two
\* groups of the enumeration
C10_Witness ==
    /\ mode = "run" /\ pc = "done"
    /\ Failed # {}
    /\ \E a \in Succeeded, b \in Succeeded : Group(a) < Group(b)

----------------------------------------------------------------------------
(* SpecBirthday: parse_birthday on the birthday rows of a bounded family   *)

\* the four well-formed texts of a birthday, and texts around them
WellFormed == {"S d", "Sd", "d S", "dS"}
Forms == WellFormed \cup {"S|d", "padded", "lower", "season only", "suffixed"}

\* where the birthday row stands in the page
RowFound == {"only row", "after another row", "after an unparsed birthday"}
Layouts == RowFound \cup {"no detail cell", "no infobox"}

\* the strings of the detail cell for a form, a season word and a day number
DetailStrings(form, word, day) ==
    CASE form = "S d" -> <<word \o <<" ">> \o Str(day)>>
      [] form = "Sd" -> <<word \o Str(day)>>
      [] form = "d S" -> <<Str(day) \o <<" ">> \o word>>
      [] form = "dS" -> <<Str(day) \o word>>
      [] form = "S|d" -> <<word, <<" ">> \o Str(day)>>
      [] form = "padded" -> <<<<"\n", " ">> \o word \o <<" ", " ">> \o Str(day) \o <<" ">>>>
      [] form = "lower" -> <<Lower(word) \o <<" ">> \o Str(day)>>
      [] form = "season only" -> <<word>>
      [] form = "suffixed" -> <<word \o <<" ">> \o Str(day) \o <<"t", "h">>>>

BirthdayRow(strings) == InfoRow(<<T_Birthday>>, strings, <<>>)

BirthdayDoc(layout, strings) ==
    CASE layout = "only row" ->
            [infobox |-> Some([img |-> None, rows |-> <<BirthdayRow(strings)>>]),
             content |-> None]
      [] layout = "after another row" ->
            [infobox |-> Some([img |-> None,
                               rows |-> <<InfoRow(<<T_Loved>>, <<>>, <<Some(T_Pizza)>>),
                                          BirthdayRow(strings)>>]),
             content |-> None]
      [] layout = "after an unparsed birthday" ->
            [infobox |-> Some([img |-> None,
                               rows |-> <<BirthdayRow(<<<<"U", "n", "k", "n", "o", "w", "n">>>>),
                                          BirthdayRow(strings)>>]),
             content |-> None]
      [] layout = "no detail cell" ->
            [infobox |-> Some([img |-> None,
                               rows |-> <<[section |-> Some(<<T_Birthday>>),
                                           detail |-> None]>>]),
             content |-> None]
      [] layout = "no infobox" -> DocBare

InitBirthday ==
    /\ mode = "birthday" /\ pc = "input"
    /\ \E form \in Forms, layout \in Layouts, w \in 1..Len(SeasonWords), day \in 0..MaxDay :
          /\ bd_in = Some([form |-> form, layout |-> layout, season |-> w, day |-> day])
          /\ bd_doc = Some(BirthdayDoc(layout, DetailStrings(form, SeasonWords[w], day)))
    /\ bd_out = None
    /\ IdleRun /\ IdleGifts /\ IdleSched

\* the call parse_birthday(soup) of line 294
ParseBirthday ==
    /\ mode = "birthday" /\ pc = "input"
    /\ bd_out' = Some(parse_birthday(Get(bd_doc)))
    /\ pc' = "done"
    /\ UNCHANGED <<mode, bd_in, bd_doc, runVars, giftVars, schedVars>>

NextBirthday == ParseBirthday

SpecBirthday == InitBirthday /\ [][NextBirthday]_vars

\* the text the patterns are matched against (line 83) in the row built from bd_in
BirthdayText ==
    GetTextStrip(DetailStrings(Get(bd_in).form, SeasonWords[Get(bd_in).season],
                               Get(bd_in).day), <<>>)

\* C6: for every season S and day number d, parse_birthday returns
\* {season: S, day: d} for each of the texts "S d", "Sd", "d S" and "dS"; the
\* season-first pattern is tried first and, when it matches, decides the result.
C6_BirthdayForms ==
    (mode = "birthday" /\ pc = "done") =>
        LET in == Get(bd_in)
            expected == [season |-> SeasonWords[in.season], day |-> in.day]
        IN  /\ (in.form \in WellFormed /\ in.layout \in RowFound) =>
                   Get(bd_out) = Some(expected)
            /\ (in.form \in {"S d", "Sd"} /\ in.layout \in RowFound) =>
                   /\ IsSome(MatchSeasonDay(BirthdayText))
                   /\ Get(Get(bd_out)).season = Get(MatchSeasonDay(BirthdayText))[1]
            /\ (in.form \in {"d S", "dS"} /\ in.layout \in RowFound) =>
                   /\ MatchSeasonDay(BirthdayText) = None
                   /\ IsSome(MatchDaySeason(BirthdayText))

\* C6 witness: a two-digit day written day first without the space was parsed
C6_Witness ==
    /\ mode = "birthday" /\ pc = "done"
    /\ Get(bd_in).form = "dS" /\ Get(bd_in).day >= 10
    /\ Get(bd_in).layout = "after an unparsed birthday"
    /\ IsSome(Get(bd_out))

----------------------------------------------------------------------------
(* SpecGifts: parse_gift_preferences, one loop iteration per step, on the  *)
(* links and headings of any document within the bound                      *)

\* how many links and headings the document holds
MaxGiftSteps == 5

T_Egg == <<"E", "g", "g">>
T_FilePizza == <<"F", "i", "l", "e", ":", "P", "i", "z", "z", "a", ".", "p", "n", "g">>

\* the title attributes a link may carry (None: no title attribute)
Titles == {None, Some(<<>>), Some(<<" ">>), Some(T_Pizza),
           Some(<<" ">> \o T_Pizza \o <<"\n">>), Some(T_Egg),
           Some(T_FilePizza), Some(<<" ">> \o T_FilePizza),
           Some(<<"U", "n", "i", "v", "e", "r", "s", "a", "l", " ", "L", "o", "v", "e", "s">>)}

\* the strings of the mw-headline span of an h3 (None: the h3 has no such span)
Headlines == {None,
              Some(<< <<"L", "o", "v", "e">> >>),
              Some(<< <<" ", "L", "O", "V", "E">>, <<" ">> >>),
              Some(<< <<"L", "i", "k", "e">> >>),
              Some(<< <<"L", "o", "v", "e", "s">> >>)}

InitGifts ==
    /\ mode = "gifts" /\ pc = "infobox"
    /\ IdleGifts /\ IdleRun /\ IdleBirthday /\ IdleSched

\* lines 141-146: the next link of the detail cell of a "Loved" row
InfoboxLink ==
    /\ mode = "gifts" /\ pc = "infobox" /\ g_steps < MaxGiftSteps
    /\ \E title \in Titles :
          /\ gifts' = AddLoved(gifts, title)
          /\ g_infobox' = g_infobox \cup {title}
    /\ g_steps' = g_steps + 1
    /\ UNCHANGED <<mode, pc, current_category, g_love, runVars, bdVars, schedVars>>

\* lines 149-151: the page has no div#mw-content-text
NoContent ==
    /\ mode = "gifts" /\ pc = "infobox"
    /\ pc' = "done"
    /\ UNCHANGED <<mode, giftVars, runVars, bdVars, schedVars>>

\* lines 149-162: the page has one, and the loop over its h3 begins
ContentFound ==
    /\ mode = "gifts" /\ pc = "infobox"
    /\ pc' = "headings"
    /\ UNCHANGED <<mode, giftVars, runVars, bdVars, schedVars>>

\* lines 162-179: the next h3; current_category stays None when it is skipped
Heading ==
    /\ mode = "gifts" /\ pc = "headings" /\ g_steps < MaxGiftSteps
    /\ \E headline \in Headlines : current_category' = CategoryOf(headline)
    /\ g_steps' = g_steps + 1
    /\ UNCHANGED <<mode, pc, gifts, g_infobox, g_love, runVars, bdVars, schedVars>>

\* lines 182-189: the next link of a sibling of the heading
SiblingLink ==
    /\ mode = "gifts" /\ pc = "headings" /\ g_steps < MaxGiftSteps
    /\ IsSome(current_category)
    /\ \E title \in Titles :
          /\ gifts' = AddGift(gifts, Get(current_category), title)
          /\ g_love' = IF Get(current_category) = "loved" THEN g_love \cup {title}
                       ELSE g_love
    /\ g_steps' = g_steps + 1
    /\ UNCHANGED <<mode, pc, current_category, g_infobox, runVars, bdVars, schedVars>>

\* line 180: the walk meets an h2, or runs out of siblings
WalkEnds ==
    /\ mode = "gifts" /\ pc = "headings" /\ IsSome(current_category)
    /\ current_category' = None
    /\ UNCHANGED <<mode, pc, gifts, g_infobox, g_love, g_steps, runVars, bdVars, schedVars>>

\* line 192
ReturnGifts ==
    /\ mode = "gifts" /\ pc = "headings"
    /\ pc' = "done"
    /\ current_category' = None
    /\ UNCHANGED <<mode, gifts, g_infobox, g_love, g_steps, runVars, bdVars, schedVars>>

NextGifts == \/ InfoboxLink \/ NoContent \/ ContentFound \/ Heading \/ SiblingLink
             \/ WalkEnds \/ ReturnGifts

SpecGifts == InitGifts /\ [][NextGifts]_vars

Occurrences(seq, x) == Cardinality({k \in 1..Len(seq) : seq[k] = x})

\* a link that names an item: its title is set, is not blank and is no file reference
NamesItem(title) ==
    IsSome(title) /\ Strip(Get(title)) # <<>> /\ ~StartsWith(Strip(Get(title)), T_File)

\* C3: none of the five lists holds an item name twice; an item linked in the
\* infobox "Loved" row and under a "Love" heading is in "loved" exactly once.
C3_NoDuplicateItems ==
    mode = "gifts" =>
        /\ \A c \in Categories : \A x \in SeqRange(gifts[c]) : Occurrences(gifts[c], x) = 1
        /\ \A t \in g_infobox, u \in g_love :
              (NamesItem(t) /\ NamesItem(u) /\ Strip(Get(t)) = Strip(Get(u)))
                  => Occurrences(gifts["loved"], Strip(Get(t))) = 1

\* C3 witness: an item was linked in the "Loved" row and again under a "Love"
\* heading, twice, and "loved" holds a second item as well
C3_Witness ==
    /\ mode = "gifts" /\ pc = "done"
    /\ Some(T_Pizza) \in g_infobox
    /\ {Some(T_Pizza), Some(<<" ">> \o T_Pizza \o <<"\n">>)} \subseteq g_love
    /\ Len(gifts["loved"]) >= 2

\* C4: no item stored in any of the five categories begins with "File:",
\* whether its link was in the infobox "Loved" row or under a category heading.
C4_NoFileReference ==
    mode = "gifts" =>
        \A c \in Categories : \A x \in SeqRange(gifts[c]) : ~StartsWith(x, T_File)

----------------------------------------------------------------------------
(* SpecSched: parse_season_schedules, one child of the content cell per     *)
(* step, on any content cell within the bound                               *)

\* how many children and table rows the content cell holds
MaxNodes == 6

\* the strings of the b of a paragraph (None: the paragraph has no b)
Bolds == {None, Some(<<T_Rain>>), Some(<< <<" ">>, <<"M", "o", "n">> >>)}

\* the rows of a table: a header row that also has cells, a row of one cell,
\* and two rows with entries, the second with a third cell and a split location
Rows == { [th |-> TRUE, tds |-> << <<T_9am>>, <<T_Home>> >>],
          [th |-> FALSE, tds |-> << <<T_9am>> >>],
          [th |-> FALSE, tds |-> << <<T_9am>>, <<T_Home>> >>],
          [th |-> FALSE, tds |-> << <<T_Noon, <<" ">>>>, <<T_Beach, <<" ", "w", "e", "s", "t", " ">>>>, <<T_Rain>> >>] }

RECURSIVE RowSeqs(_)
\* the sequences of at most n rows
RowSeqs(n) ==
    IF n <= 0 THEN {<<>>}
    ELSE RowSeqs(n - 1) \cup {Append(rs, r) : rs \in {x \in RowSeqs(n - 1) : Len(x) = n - 1},
                                              r \in Rows}

InitSched ==
    /\ mode = "sched" /\ pc = "children"
    /\ IdleSched /\ IdleRun /\ IdleBirthday /\ IdleGifts

\* the loop body of lines 249-278 on the next child
Iterate(element, cost) ==
    LET st == ChildStep([schedules |-> schedules, current_label |-> current_label],
                        element)
    IN  /\ schedules' = st.schedules
        /\ current_label' = st.current_label
        /\ children' = Append(children, element)
        /\ s_nodes' = s_nodes + cost
        /\ UNCHANGED <<mode, pc, runVars, bdVars, giftVars>>

\* the next child is a p
Paragraph ==
    /\ mode = "sched" /\ pc = "children" /\ s_nodes < MaxNodes
    /\ \E bold \in Bolds : Iterate(Child("p", bold, {}, <<>>), 1)

\* the next child is a table of class wikitable
Table ==
    /\ mode = "sched" /\ pc = "children" /\ s_nodes < MaxNodes
    /\ \E rows \in RowSeqs(MaxNodes - s_nodes - 1) :
          Iterate(Child("table", None, {"wikitable", "sortable"}, rows), 1 + Len(rows))

\* the next child is neither: here a table of another class, with an entry row
OtherChild ==
    /\ mode = "sched" /\ pc = "children" /\ s_nodes < MaxNodes
    /\ Iterate(Child("table", None, {"infobox"},
                      <<[th |-> FALSE, tds |-> << <<T_9am>>, <<T_Home>> >>]>>), 1)

\* line 280
ReturnSchedules ==
    /\ mode = "sched" /\ pc = "children"
    /\ pc' = "done"
    /\ UNCHANGED <<mode, schedVars, runVars, bdVars, giftVars>>

NextSched == Paragraph \/ Table \/ OtherChild \/ ReturnSchedules

SpecSched == InitSched /\ [][NextSched]_vars

\* the rows of a table that make an entry: no header cell, two cells or more
EntryRows(rows) == SelectSeq(rows, LAMBDA r : ~r.th /\ Len(r.tds) >= 2)

IsScheduleTable(element) == element.name = "table" /\ "wikitable" \in element.classes

\* the positions in children of the schedule tables with at least one entry
VariantPositions ==
    {p \in 1..Len(children) :
        IsScheduleTable(children[p]) /\ EntryRows(children[p].rows) # <<>>}

\* the position of the k-th of them
VariantPosition(k) ==
    CHOOSE p \in VariantPositions : Cardinality({q \in VariantPositions : q <= p}) = k

\* C5: a schedule table with no entry (only header rows or rows of fewer than
\* two cells) is not in the variant list, every schedule table with an entry
\* is, the variants are in the order of the tables and each variant's entries
\* in the order of its table's rows.
C5_VariantsAreTablesWithEntries ==
    mode = "sched" =>
        /\ Len(schedules) = Cardinality(VariantPositions)
        /\ \A k \in 1..Len(schedules) :
              LET rows == EntryRows(children[VariantPosition(k)].rows)
              IN  /\ Len(schedules[k].entries) = Len(rows)
                  /\ Len(rows) >= 1
                  /\ \A j \in 1..Len(rows) :
                        schedules[k].entries[j] =
                            [time |-> GetTextStrip(rows[j].tds[1], <<>>),
                             location |-> GetTextStrip(rows[j].tds[2], <<" ">>)]

\* C5 witness: the cell held a schedule table whose rows gave no entry, then
\* one with two different entries, and one variant was returned
C5_Witness ==
    /\ mode = "sched" /\ pc = "done"
    /\ Len(schedules) = 1
    /\ Len(schedules[1].entries) = 2
    /\ schedules[1].entries[1] # schedules[1].entries[2]
    /\ \E p \in 1..Len(children) :
          /\ IsScheduleTable(children[p]) /\ Len(children[p].rows) >= 1
          /\ EntryRows(children[p].rows) = <<>>
          /\ \E q \in VariantPositions : p < q

\* the label in force at position p: the text of the b of the last paragraph
\* with a b before p, "Regular" when there is none
LabelAt(p) ==
    LET bolds == {q \in 1..(p - 1) : children[q].name = "p" /\ IsSome(children[q].bold)}
    IN  IF bolds = {} THEN T_Regular
        ELSE GetTextStrip(Get(children[MaxOf(bolds)].bold), <<>>)

\* C9: every variant is named with the bold text of the most recent preceding
\* paragraph that has bold text, or "Regular" when there is none; a paragraph
\* without bold text leaves the label as it is, and so does a table.
C9_VariantNames ==
    mode = "sched" =>
        /\ \A k \in 1..Len(schedules) : schedules[k].name = LabelAt(VariantPosition(k))
        /\ current_label = LabelAt(Len(children) + 1)

\* C9 witness: two variants with the same label, which is not "Regular", were
\* returned from tables with only a paragraph without bold text between them
C9_Witness ==
    /\ mode = "sched" /\ pc = "done"
    /\ Len(schedules) = 2
    /\ schedules[1].name = schedules[2].name
    /\ schedules[1].name # T_Regular
    /\ \E p \in VariantPositions :
          /\ p + 2 \in VariantPositions
          /\ children[p + 1].name = "p" /\ children[p + 1].bold = None

====
